---- MODULE Spec2Model ----
(***************************************************************************)
(* tty0tty null-modem emulator (kernel module).  State machine of the     *)
(* driver's tty operations in                                              *)
(*   src/examples/tools/nullmodem/linux/module/tty0tty.c                   *)
(*                                                                         *)
(* Each tty operation (open, close, write, write_room, tiocmget, tiocmset, *)
(* TIOCGICOUNT) is one action that carries out the whole handler; the      *)
(* blocking TIOCMIWAIT is cut at schedule().  The handlers are taken on    *)
(* any tty whose driver_data points to a structure: close leaves           *)
(* driver_data and the table entry in place, and write and write_room      *)
(* themselves test open_count.                                             *)
(*                                                                         *)
(* kmalloc does not clear memory and the driver initialises only sem,      *)
(* open_count and msr: mcr, icount and the wait queue head start with      *)
(* whatever the memory held (slab).                                        *)
(*                                                                         *)
(* Spec is the whole driver.  SpecModem, SpecData, SpecWait and SpecPair   *)
(* run the same actions in groups (control lines, data path, TIOCMIWAIT,   *)
(* the three partner lookups) so that each group is explored exhaustively. *)
(* SpecWaitLoop is the loop of TIOCMIWAIT alone, with the counters it      *)
(* compares as inputs.                                                     *)
(*                                                                         *)
(* SpecRace and SpecRaceFair are the same handlers cut into the steps      *)
(* between their accesses to shared memory and entered by several callers  *)
(* at once: the structures are on a heap, tty0tty_table and                *)
(* tty->driver_data hold pointers into it, and each semaphore is a count.  *)
(* SpecSetRace starts them with a tiocmset in progress on an opened pair.  *)
(***************************************************************************)
EXTENDS Integers, Sequences, FiniteSets, TLC

----------------------------------------------------------------------------
(* Program constants *)

TINY_TTY_MINORS == 8

MCR_DTR == 1
MCR_RTS == 2
MCR_LOOP == 4
MSR_CTS == 16
MSR_CD == 32
MSR_DSR == 64
MSR_RI == 128

\* ioctl bit names of <asm/termbits.h>, used by tiocmget/tiocmset/tiocmiwait
TIOCM_DTR == "TIOCM_DTR"
TIOCM_RTS == "TIOCM_RTS"
TIOCM_LOOP == "TIOCM_LOOP"
TIOCM_CTS == "TIOCM_CTS"
TIOCM_CAR == "TIOCM_CAR"
TIOCM_CD == TIOCM_CAR
TIOCM_RNG == "TIOCM_RNG"
TIOCM_RI == TIOCM_RNG
TIOCM_DSR == "TIOCM_DSR"

----------------------------------------------------------------------------
(* Bounds of the model *)

\* an index is opened at most MaxOpen times at once
MaxOpen == 2
\* a write passes 1..MaxCount bytes
MaxCount == 2
\* the flip buffers hold at most MaxFlip bytes in all
MaxFlip == 2
\* every word of uninitialised kmalloc memory holds one of 0..MaxGarbage
MaxGarbage == 1
\* statement level: the callers make at most MaxCalls calls in all
MaxCalls == 3

Minors == 0 .. (TINY_TTY_MINORS - 1)
\* Pairs {2k, 2k+1} share no state: callers use the first pair
Ports == {0, 1}
Bytes == {"a", "b"}
GarbageWords == 0 .. MaxGarbage
\* statement level: the callers
Tasks == {1, 2}

McrBits == {MCR_DTR, MCR_RTS, MCR_LOOP}
MsrBits == {MSR_CTS, MSR_CD, MSR_DSR, MSR_RI}

\* set/clear arguments of tiocmset: tty_tiocmset() passes disjoint masks
ModemMasks == SUBSET {TIOCM_DTR, TIOCM_RTS, TIOCM_LOOP}
\* set/clear arguments that drive the RTS line only
RtsMasks == SUBSET {TIOCM_RTS}
\* arg of TIOCMIWAIT
WaitMasks == {{TIOCM_CTS}, {TIOCM_DSR, TIOCM_CD}}

Buffers == UNION {[1 .. n -> Bytes] : n \in 1 .. MaxCount}

----------------------------------------------------------------------------
(* State *)

VARIABLES
    tty0tty_table,  \* index -> struct tty0tty_serial; an index outside the
                    \* domain is a NULL entry
    flip,           \* index -> bytes pushed to that tty's flip buffer
    waiter,         \* the task inside tty0tty_ioctl_tiocmiwait
    slab,           \* the word that fills memory kmalloc hands out
    last,           \* the last call made and what it returned
    accepted,       \* history: index -> the bytes of the writes on that
                    \* index that returned a byte count, in call order
    heap,           \* statement level: address -> struct tty0tty_serial
    table_ptr,      \* statement level: tty0tty_table as the array of
                    \* pointers it is, index -> address, 0 for NULL
    driver_data,    \* statement level: index -> tty->driver_data of the
                    \* tty of that index, 0 for NULL
    task,           \* statement level: the callers, each with the handler
                    \* it is in, its position and its local variables
    opens,          \* history: index -> how many opens have returned 0 and
                    \* whether a close has been called
    calls           \* history: how many handlers have been entered

vars == <<tty0tty_table, flip, waiter, slab, last, accepted,
          heap, table_ptr, driver_data, task, opens, calls>>

\* the state of the statement-level handlers
racevars == <<heap, table_ptr, driver_data, task, opens, calls>>

\* return values: a count (err = "none") or a negative errno
Ret(v) == [err |-> "none", val |-> v]
Errno(e) == [err |-> e, val |-> 0]

\* a finished call: the operation, the tty index it was made on, its other
\* arguments (of write: count), the value returned and what it copied out
\* to the caller
CallOut(op, index, args, ret, out) ==
    [op |-> op, index |-> index, args |-> args, ret |-> ret, out |-> out]
Call(op, index, args, ret) == CallOut(op, index, args, ret, {})

\* struct async_icount as left by kmalloc: never written by the driver
GarbageIcount(w) ==
    [cts |-> w, dsr |-> w, rng |-> w, dcd |-> w, rx |-> w, tx |-> w]

\* the MCR bits of an int left by kmalloc (bit 0 DTR, bit 1 RTS, bit 2 LOOP)
GarbageMcr(w) ==
    (IF w % 2 = 1 THEN {MCR_DTR} ELSE {})
    \cup (IF (w \div 2) % 2 = 1 THEN {MCR_RTS} ELSE {})
    \cup (IF (w \div 4) % 2 = 1 THEN {MCR_LOOP} ELSE {})

IsNull(table, index) == index \notin DOMAIN table

\* struct tty0tty_serial and tty0tty_table[TINY_TTY_MINORS]
TypeOK ==
    /\ DOMAIN tty0tty_table \subseteq Minors
    /\ \A i \in DOMAIN tty0tty_table :
          /\ tty0tty_table[i].open_count \in 0 .. MaxOpen
          /\ tty0tty_table[i].mcr \subseteq McrBits
          /\ tty0tty_table[i].msr \subseteq MsrBits
    /\ DOMAIN flip = Ports
    /\ slab \in GarbageWords

\* no task is inside tty0tty_ioctl_tiocmiwait
Idle == [state |-> "idle", index |-> 0, arg |-> {},
         cprev |-> GarbageIcount(0), sig |-> FALSE]

\* a caller outside the driver
IdleTask ==
    [pc |-> "idle", op |-> "none", index |-> 0, p |-> 0, holds |-> 0,
     mcr |-> {}, msr |-> {}, set |-> {}, clear |-> {}, arg |-> {},
     buffer |-> << >>, cprev |-> GarbageIcount(0)]

\* no tty has been opened: the table is all NULL and no structure exists
RaceInit ==
    /\ heap = << >>
    /\ table_ptr = [i \in Ports |-> 0]
    /\ driver_data = [i \in Ports |-> 0]
    /\ task = [t \in Tasks |-> IdleTask]
    /\ opens = [i \in Ports |-> [opened |-> 0, closed |-> FALSE]]
    /\ calls = 0

Init ==
    /\ RaceInit
    /\ tty0tty_table = << >>
    /\ flip = [i \in Ports |-> << >>]
    /\ waiter = Idle
    /\ slab \in GarbageWords
    /\ last = Call("init", 0, << >>, Ret(0))
    /\ accepted = [i \in Ports |-> << >>]

----------------------------------------------------------------------------
(* Pair lookup and null-modem wiring *)

\* the test each lookup makes of the entry it selects: not NULL and
\* open_count > 0
Active(table, index) == ~IsNull(table, index) /\ table[index].open_count > 0

\* lines 113-124: the entry tty0tty_open reads mcr from
OpenPartnerIndex(index) == IF index % 2 = 0 THEN index + 1 ELSE index - 1

\* WritePartnerIndex taking index + 1 in both branches
WritePartnerIndexUp(index) == IF index % 2 = 0 THEN index + 1 ELSE index + 1

\* lines 197-208: the entry whose tty tty0tty_write pushes to
WritePartnerIndex(index) == IF index % 2 = 0 THEN index + 1 ELSE index - 1

\* lines 368-379 and 413-424: the entry tty0tty_tiocmset reads msr from and
\* stores msr to
TiocmsetPartnerIndex(index) == IF index % 2 = 0 THEN index + 1 ELSE index - 1

\* the pairing {2k, 2k+1} of the minors
PartnerIndex(index) == IF index % 2 = 0 THEN index + 1 ELSE index - 1

PartnerActive(table, index) == Active(table, PartnerIndex(index))

\* SeedMsr with the carrier-detect line left out of the DTR wiring
SeedMsrNoCD(mcr) ==
    (IF MCR_RTS \in mcr THEN {MSR_CTS} ELSE {})
    \cup (IF MCR_DTR \in mcr THEN {MSR_DSR} ELSE {})

\* tty0tty_open: msr computed from the partner's mcr
SeedMsr(mcr) ==
    (IF MCR_RTS \in mcr THEN {MSR_CTS} ELSE {})
    \cup (IF MCR_DTR \in mcr THEN {MSR_DSR, MSR_CD} ELSE {})

----------------------------------------------------------------------------
(* tty0tty_open *)

\* lines 100-111: the entry is created when the table holds none; mcr and
\* icount of the new structure are whatever kmalloc returned
Allocated(table, index, w) ==
    IF IsNull(table, index)
    THEN table @@ (index :> [open_count |-> 0, msr |-> {},
                             mcr |-> GarbageMcr(w),
                             icount |-> GarbageIcount(w)])
    ELSE table

OpenMcr(table, index) ==
    IF Active(table, OpenPartnerIndex(index))
    THEN table[OpenPartnerIndex(index)].mcr
    ELSE {}

Opened(table, index) ==
    [table EXCEPT ![index].msr = SeedMsr(OpenMcr(table, index)),
                  ![index].open_count = @ + 1]

tty0tty_open(index) ==
    \/ /\ IsNull(tty0tty_table, index)          \* kmalloc fails
       /\ last' = Call("open", index, << >>, Errno("ENOMEM"))
       /\ UNCHANGED <<tty0tty_table, flip, waiter, slab, accepted, racevars>>
    \/ /\ ~IsNull(tty0tty_table, index)
          => tty0tty_table[index].open_count < MaxOpen
       /\ tty0tty_table' = Opened(Allocated(tty0tty_table, index, slab), index)
       /\ last' = Call("open", index, << >>, Ret(0))
       /\ UNCHANGED <<flip, waiter, slab, accepted, racevars>>

----------------------------------------------------------------------------
(* do_close / tty0tty_close *)

\* Closed without the open_count test of line 159
ClosedUnchecked(table, index) ==
    [table EXCEPT ![index].open_count = @ - 1]

\* Closed dropping the lines the partner sees when the last reference goes
ClosedDroppingLines(table, index) ==
    IF table[index].open_count = 0
    THEN table
    ELSE IF table[index].open_count = 1 /\ ~IsNull(table, PartnerIndex(index))
    THEN [table EXCEPT ![index].open_count = 0,
                       ![PartnerIndex(index)].msr = {}]
    ELSE [table EXCEPT ![index].open_count = @ - 1]

\* lines 155-166
Closed(table, index) ==
    IF table[index].open_count = 0
    THEN table
    ELSE [table EXCEPT ![index].open_count = @ - 1]

tty0tty_close(index) ==
    /\ ~IsNull(tty0tty_table, index)
    /\ tty0tty_table' = Closed(tty0tty_table, index)
    /\ last' = Call("close", index, << >>, Ret(0))
    /\ UNCHANGED <<flip, waiter, slab, accepted, racevars>>

----------------------------------------------------------------------------
(* tty0tty_tiocmget *)

ModemBits(rec) ==
    (IF MCR_DTR \in rec.mcr THEN {TIOCM_DTR} ELSE {})
    \cup (IF MCR_RTS \in rec.mcr THEN {TIOCM_RTS} ELSE {})
    \cup (IF MCR_LOOP \in rec.mcr THEN {TIOCM_LOOP} ELSE {})
    \cup (IF MSR_CTS \in rec.msr THEN {TIOCM_CTS} ELSE {})
    \cup (IF MSR_CD \in rec.msr THEN {TIOCM_CAR} ELSE {})
    \cup (IF MSR_RI \in rec.msr THEN {TIOCM_RI} ELSE {})
    \cup (IF MSR_DSR \in rec.msr THEN {TIOCM_DSR} ELSE {})

tty0tty_tiocmget(index) ==
    /\ ~IsNull(tty0tty_table, index)
    /\ last' = CallOut("tiocmget", index, << >>, Ret(0),
                       ModemBits(tty0tty_table[index]))
    /\ UNCHANGED <<tty0tty_table, flip, waiter, slab, accepted, racevars>>

----------------------------------------------------------------------------
(* tty0tty_tiocmset *)

\* lines 368-379: the partner's msr, or 0 when the partner is not open
PartnerMsr(table, index) ==
    IF Active(table, TiocmsetPartnerIndex(index))
    THEN table[TiocmsetPartnerIndex(index)].msr
    ELSE {}

\* lines 383-407, the mcr half
NewMcr(mcr, set, clear) ==
    LET m1 == IF TIOCM_RTS \in set THEN mcr \cup {MCR_RTS} ELSE mcr
        m2 == IF TIOCM_DTR \in set THEN m1 \cup {MCR_DTR} ELSE m1
        m3 == IF TIOCM_RTS \in clear THEN m2 \ {MCR_RTS} ELSE m2
        m4 == IF TIOCM_DTR \in clear THEN m3 \ {MCR_DTR} ELSE m3
    IN  m4

\* NewMsr without the two clear branches
NewMsrSetOnly(msr, set, clear) ==
    LET s1 == IF TIOCM_RTS \in set THEN msr \cup {MSR_CTS} ELSE msr
        s2 == IF TIOCM_DTR \in set THEN s1 \cup {MSR_DSR, MSR_CD} ELSE s1
    IN  s2

\* lines 383-407, the msr half
NewMsr(msr, set, clear) ==
    LET s1 == IF TIOCM_RTS \in set THEN msr \cup {MSR_CTS} ELSE msr
        s2 == IF TIOCM_DTR \in set THEN s1 \cup {MSR_DSR, MSR_CD} ELSE s1
        s3 == IF TIOCM_RTS \in clear THEN s2 \ {MSR_CTS} ELSE s2
        s4 == IF TIOCM_DTR \in clear THEN s3 \ {MSR_DSR, MSR_CD} ELSE s3
    IN  s4

\* ModemSet storing msr in the partner's structure without looking at its
\* open_count
ModemSetUnguarded(table, index, set, clear) ==
    LET msr == NewMsr(PartnerMsr(table, index), set, clear)
        t1 == [table EXCEPT ![index].mcr = NewMcr(@, set, clear)]
    IN  IF ~IsNull(t1, TiocmsetPartnerIndex(index))
        THEN [t1 EXCEPT ![TiocmsetPartnerIndex(index)].msr = msr]
        ELSE t1

\* ModemSet storing the new msr in the caller's own structure as well
ModemSetOwnMsr(table, index, set, clear) ==
    LET msr == NewMsr(PartnerMsr(table, index), set, clear)
        t1 == [table EXCEPT ![index].mcr = NewMcr(@, set, clear),
                            ![index].msr = msr]
    IN  IF Active(t1, TiocmsetPartnerIndex(index))
        THEN [t1 EXCEPT ![TiocmsetPartnerIndex(index)].msr = msr]
        ELSE t1

\* lines 410-424: mcr stored, msr stored in the partner when it is open
ModemSet(table, index, set, clear) ==
    LET msr == NewMsr(PartnerMsr(table, index), set, clear)
        t1 == [table EXCEPT ![index].mcr = NewMcr(@, set, clear)]
    IN  IF Active(t1, TiocmsetPartnerIndex(index))
        THEN [t1 EXCEPT ![TiocmsetPartnerIndex(index)].msr = msr]
        ELSE t1

tty0tty_tiocmset(index, set, clear) ==
    /\ ~IsNull(tty0tty_table, index)
    /\ set \cap clear = {}
    /\ tty0tty_table' = ModemSet(tty0tty_table, index, set, clear)
    /\ last' = Call("tiocmset", index, <<set, clear>>, Ret(0))
    /\ UNCHANGED <<flip, waiter, slab, accepted, racevars>>

----------------------------------------------------------------------------
(* tty0tty_write, tty0tty_write_room *)

\* Pushed putting the new bytes in front of the buffered ones
PushedInFront(f, index, buffer) ==
    [f EXCEPT ![WritePartnerIndex(index)] = buffer \o @]

\* lines 212-217: the bytes are inserted in the partner tty's flip buffer in
\* one tty_insert_flip_string call and pushed
Pushed(f, index, buffer) ==
    [f EXCEPT ![WritePartnerIndex(index)] = @ \o buffer]

\* the value tty0tty_write returns
WriteRetval(table, index, buffer) ==
    IF IsNull(table, index) THEN Errno("ENODEV")
    ELSE IF table[index].open_count = 0 THEN Errno("EINVAL")
    ELSE IF Active(table, WritePartnerIndex(index)) THEN Ret(Len(buffer))
    ELSE Errno("EINVAL")

\* WriteFlip without the open_count test of lines 193-195
WriteFlipNoOpenCheck(table, f, index, buffer) ==
    IF ~IsNull(table, index) /\ Active(table, WritePartnerIndex(index))
    THEN [f EXCEPT ![WritePartnerIndex(index)] = @ \o buffer]
    ELSE f

\* the flip buffers tty0tty_write leaves
WriteFlip(table, f, index, buffer) ==
    IF /\ ~IsNull(table, index)
       /\ table[index].open_count > 0
       /\ Active(table, WritePartnerIndex(index))
    THEN Pushed(f, index, buffer)
    ELSE f

FlipTotal(f) == Len(f[0]) + Len(f[1])

tty0tty_write(index, buffer) ==
    /\ flip' = WriteFlip(tty0tty_table, flip, index, buffer)
    /\ FlipTotal(flip') <= MaxFlip
    /\ last' = Call("write", index, Len(buffer),
                    WriteRetval(tty0tty_table, index, buffer))
    /\ accepted' =
         IF WriteRetval(tty0tty_table, index, buffer).err = "none"
         THEN [accepted EXCEPT ![index] = @ \o buffer]
         ELSE accepted
    /\ UNCHANGED <<tty0tty_table, waiter, slab, racevars>>

\* the value tty0tty_write_room returns
WriteRoom(table, index) ==
    IF IsNull(table, index) THEN Errno("ENODEV")
    ELSE IF table[index].open_count = 0 THEN Errno("EINVAL")
    ELSE Ret(255)

tty0tty_write_room(index) ==
    /\ last' = Call("write_room", index, << >>, WriteRoom(tty0tty_table, index))
    /\ UNCHANGED <<tty0tty_table, flip, waiter, slab, accepted, racevars>>

----------------------------------------------------------------------------
(* tty0tty_ioctl_tiocgicount *)

tty0tty_ioctl_tiocgicount(index) ==
    /\ ~IsNull(tty0tty_table, index)
    /\ last' = CallOut("tiocgicount", index, << >>, Ret(0),
                       tty0tty_table[index].icount)
    /\ UNCHANGED <<tty0tty_table, flip, waiter, slab, accepted, racevars>>

----------------------------------------------------------------------------
(* tty0tty_ioctl_tiocmiwait: the task snapshots icount and sleeps on the    *)
(* structure's wait queue; each time schedule() returns it looks at the     *)
(* pending signal and at the counters.                                      *)

\* lines 478-482.  The wait queue head is never initialised
\* (init_waitqueue_head is not called), so add_wait_queue either links the
\* task in and the task sleeps, or faults on the garbage list pointers.
tiocmiwait_enter(index, arg) ==
    /\ waiter.state = "idle"
    /\ ~IsNull(tty0tty_table, index)
    /\ \E st \in {"sleeping", "fault"} :
         waiter' = [state |-> st, index |-> index, arg |-> arg,
                    cprev |-> tty0tty_table[index].icount, sig |-> FALSE]
    /\ UNCHANGED <<tty0tty_table, flip, slab, last, accepted, racevars>>

\* a signal is sent to the sleeping task (TASK_INTERRUPTIBLE): it becomes
\* runnable with the signal pending
tiocmiwait_signal ==
    /\ waiter.state = "sleeping"
    /\ waiter' = [waiter EXCEPT !.state = "runnable", !.sig = TRUE]
    /\ UNCHANGED <<tty0tty_table, flip, slab, last, accepted, racevars>>

\* the sleeping task is woken with no signal pending.  No handler of the
\* driver calls wake_up on the queue: such a wake-up comes from outside.
tiocmiwait_wake ==
    /\ waiter.state = "sleeping"
    /\ waiter' = [waiter EXCEPT !.state = "runnable"]
    /\ UNCHANGED <<tty0tty_table, flip, slab, last, accepted, racevars>>

\* NoChange comparing the counters with zero in place of the snapshot
NoChangeFromZero(cnow, cprev) ==
    /\ cnow.rng = 0 /\ cnow.dsr = 0
    /\ cnow.dcd = 0 /\ cnow.cts = 0

\* lines 490-491
NoChange(cnow, cprev) ==
    /\ cnow.rng = cprev.rng /\ cnow.dsr = cprev.dsr
    /\ cnow.dcd = cprev.dcd /\ cnow.cts = cprev.cts

\* MaskedChange without the tests of arg
MaskedChangeAnyLine(arg, cnow, cprev) ==
    \/ cnow.rng # cprev.rng
    \/ cnow.dsr # cprev.dsr
    \/ cnow.dcd # cprev.dcd
    \/ cnow.cts # cprev.cts

\* lines 493-496
MaskedChange(arg, cnow, cprev) ==
    \/ TIOCM_RNG \in arg /\ cnow.rng # cprev.rng
    \/ TIOCM_DSR \in arg /\ cnow.dsr # cprev.dsr
    \/ TIOCM_CD \in arg /\ cnow.dcd # cprev.dcd
    \/ TIOCM_CTS \in arg /\ cnow.cts # cprev.cts

\* lines 483-499: schedule() has returned
tiocmiwait_resume ==
    /\ waiter.state = "runnable"
    /\ LET cnow == tty0tty_table[waiter.index].icount
       IN  IF waiter.sig
           THEN /\ waiter' = Idle
                /\ last' = Call("tiocmiwait", waiter.index, waiter.arg,
                                Errno("ERESTARTSYS"))
           ELSE IF NoChange(cnow, waiter.cprev)
           THEN /\ waiter' = Idle
                /\ last' = Call("tiocmiwait", waiter.index, waiter.arg, Errno("EIO"))
           ELSE IF MaskedChange(waiter.arg, cnow, waiter.cprev)
           THEN /\ waiter' = Idle
                /\ last' = Call("tiocmiwait", waiter.index, waiter.arg, Ret(0))
           ELSE /\ waiter' = [waiter EXCEPT !.state = "sleeping",
                                            !.cprev = cnow]
                /\ UNCHANGED last
    /\ UNCHANGED <<tty0tty_table, flip, slab, accepted, racevars>>

----------------------------------------------------------------------------

\* open and close
Lifecycle ==
    \/ \E index \in Ports : tty0tty_open(index)
    \/ \E index \in Ports : tty0tty_close(index)

\* modem control lines
Modem ==
    \/ \E index \in Ports : tty0tty_tiocmget(index)
    \/ \E index \in Ports, set \in ModemMasks, clear \in ModemMasks :
            tty0tty_tiocmset(index, set, clear)

\* data path and counters
Data ==
    \/ \E index \in Ports, buffer \in Buffers : tty0tty_write(index, buffer)
    \/ \E index \in Ports : tty0tty_write_room(index)
    \/ \E index \in Ports : tty0tty_ioctl_tiocgicount(index)

\* TIOCMIWAIT
Wait ==
    \/ \E index \in Ports, arg \in WaitMasks : tiocmiwait_enter(index, arg)
    \/ tiocmiwait_signal
    \/ tiocmiwait_wake
    \/ tiocmiwait_resume

Next == Lifecycle \/ Modem \/ Data \/ Wait

Spec == Init /\ [][Next]_vars

SpecModem == Init /\ [][Lifecycle \/ Modem]_vars
SpecData == Init /\ [][Lifecycle \/ Data]_vars
\* tiocmset calls that raise and drop RTS, the line behind the partner's CTS
RtsLine ==
    \E index \in Ports, set \in RtsMasks, clear \in RtsMasks :
        tty0tty_tiocmset(index, set, clear)

SpecWait == Init /\ [][Lifecycle \/ RtsLine \/ Wait]_vars

\* the three handlers that look up the neighbour of an index
PairWrite ==
    \E index \in Ports, byte \in Bytes : tty0tty_write(index, <<byte>>)

SpecPair == Init /\ [][Lifecycle \/ RtsLine \/ PairWrite]_vars

\* TIOCMIWAIT taken alone.  The handler reads tty0tty->icount when it is
\* entered (line 478) and each time schedule() returns (line 489); what the
\* two reads deliver is an input of the handler.  A task sleeps in the
\* handler on an open tty: the snapshot it took and the counters the
\* structure holds now are any two values.
LoopMasks == WaitMasks \cup {{TIOCM_RNG}}

Counters ==
    [cts : GarbageWords, dsr : GarbageWords, rng : GarbageWords,
     dcd : GarbageWords, rx : {0}, tx : {0}]

InitWaitLoop ==
    /\ RaceInit
    /\ \E index \in Ports, cnow \in Counters :
          tty0tty_table = (index :> [open_count |-> 1, msr |-> {}, mcr |-> {},
                                     icount |-> cnow])
    /\ \E arg \in LoopMasks, cprev \in Counters :
          waiter = [state |-> "sleeping",
                    index |-> CHOOSE i \in Ports : ~IsNull(tty0tty_table, i),
                    arg |-> arg, cprev |-> cprev, sig |-> FALSE]
    /\ flip = [i \in Ports |-> << >>]
    /\ slab \in GarbageWords
    /\ last = Call("init", 0, << >>, Ret(0))
    /\ accepted = [i \in Ports |-> << >>]

SpecWaitLoop == InitWaitLoop /\ [][Wait]_vars

----------------------------------------------------------------------------
(* Statement level.  The handlers are entered by several callers at once;  *)
(* a step is one access to memory that callers share, or the part of a     *)
(* handler that runs inside the structure's semaphore.  kmalloc(GFP_KERNEL) *)
(* and down() may sleep, tiocmget, tiocmset and the ioctls are entered     *)
(* with no lock of the tty layer held.  A tty's handlers other than open   *)
(* are entered once an open of that tty has returned 0.                    *)

\* what the statement-level handlers leave alone; the values they return
\* are not recorded
seqvars == <<tty0tty_table, waiter, last, accepted>>

\* the MSR bits of an int left by kmalloc
GarbageMsr(w) ==
    (IF (w \div 16) % 2 = 1 THEN {MSR_CTS} ELSE {})
    \cup (IF (w \div 32) % 2 = 1 THEN {MSR_CD} ELSE {})
    \cup (IF (w \div 64) % 2 = 1 THEN {MSR_DSR} ELSE {})
    \cup (IF (w \div 128) % 2 = 1 THEN {MSR_RI} ELSE {})

\* lines 102-107: the structure kmalloc returns, after sema_init and
\* open_count = 0; tty is not set (-1)
Fresh(w) ==
    [open_count |-> 0, sem |-> 1, msr |-> GarbageMsr(w), mcr |-> GarbageMcr(w),
     icount |-> GarbageIcount(w), tty |-> -1]

\* tty0tty_table[index] != NULL and tty0tty_table[index]->open_count > 0
ActivePtr(index) ==
    /\ table_ptr[index] # 0
    /\ heap[table_ptr[index]].open_count > 0

\* caller t enters a handler.  The callers are interchangeable: of the
\* callers outside the driver the first one makes the next call.
CanCall(t) ==
    /\ task[t].pc = "idle"
    /\ \A u \in Tasks : u < t => task[u].pc # "idle"
    /\ calls < MaxCalls
    /\ calls' = calls + 1

\* caller t inside handler op on the tty of index, at pc
Entered(t, op, index, pc) ==
    [task[t] EXCEPT !.pc = pc, !.op = op, !.index = index,
                    !.p = driver_data[index]]

\* caller t goes on inside its handler
Goes(t, rec) == task' = [task EXCEPT ![t] = rec]

\* caller t leaves its handler
Returns(t) == task' = [task EXCEPT ![t] = IdleTask]

\* a NULL tty->driver_data is dereferenced: the kernel stops the caller
Oops(t) == task' = [task EXCEPT ![t] = [IdleTask EXCEPT !.pc = "oops"]]

\* down(&tty0tty->sem): the caller goes on when the count is 1
down(t, from, to) ==
    /\ task[t].pc = from
    /\ heap[task[t].p].sem = 1
    /\ heap' = [heap EXCEPT ![task[t].p].sem = 0]
    /\ Goes(t, [task[t] EXCEPT !.pc = to, !.holds = task[t].p])
    /\ UNCHANGED <<table_ptr, driver_data, opens, flip, slab, calls, seqvars>>

\* lines 95-100.  The two minors of the pair are interchangeable: the
\* first call of all opens the even one.
open_enter(t, index) ==
    /\ CanCall(t)
    /\ calls = 0 => index % 2 = 0
    /\ driver_data' = [driver_data EXCEPT ![index] = 0]
    /\ Goes(t, [Entered(t, "open", index,
                        IF table_ptr[index] = 0 THEN "open_102"
                                                ELSE "open_113")
                  EXCEPT !.p = table_ptr[index]])
    /\ UNCHANGED <<heap, table_ptr, opens, flip, slab, seqvars>>

\* lines 102-107
open_kmalloc(t) ==
    /\ task[t].pc = "open_102"
    /\ \/ /\ Returns(t)
          /\ UNCHANGED heap
       \/ /\ heap' = Append(heap, Fresh(slab))
          /\ Goes(t, [task[t] EXCEPT !.pc = "open_109", !.p = Len(heap) + 1])
    /\ UNCHANGED <<table_ptr, driver_data, opens, flip, slab, calls, seqvars>>

\* line 109
open_store(t) ==
    /\ task[t].pc = "open_109"
    /\ table_ptr' = [table_ptr EXCEPT ![task[t].index] = task[t].p]
    /\ Goes(t, [task[t] EXCEPT !.pc = "open_113"])
    /\ UNCHANGED <<heap, driver_data, opens, flip, slab, calls, seqvars>>

\* lines 113-137
open_lookup(t) ==
    /\ task[t].pc = "open_113"
    /\ LET b == OpenPartnerIndex(task[t].index)
           mcr == IF ActivePtr(b) THEN heap[table_ptr[b]].mcr ELSE {}
       IN  Goes(t, [task[t] EXCEPT !.pc = "open_139", !.mcr = mcr,
                                   !.msr = SeedMsr(mcr)])
    /\ UNCHANGED <<heap, table_ptr, driver_data, opens, flip, slab, calls,
                   seqvars>>

\* line 139
open_msr(t) ==
    /\ task[t].pc = "open_139"
    /\ heap' = [heap EXCEPT ![task[t].p].msr = task[t].msr]
    /\ Goes(t, [task[t] EXCEPT !.pc = "open_141"])
    /\ UNCHANGED <<table_ptr, driver_data, opens, flip, slab, calls, seqvars>>

\* line 141
open_down(t) == down(t, "open_141", "open_144")

\* lines 144-150
open_body(t) ==
    /\ task[t].pc = "open_144"
    /\ driver_data' = [driver_data EXCEPT ![task[t].index] = task[t].p]
    /\ heap' = [heap EXCEPT ![task[t].p] =
                  [@ EXCEPT !.tty = task[t].index,
                            !.open_count = @ + 1,
                            !.sem = 1]]
    /\ opens' = [opens EXCEPT ![task[t].index].opened = @ + 1]
    /\ Returns(t)
    /\ UNCHANGED <<table_ptr, flip, slab, calls, seqvars>>

\* lines 173-179
close_enter(t, index) ==
    /\ CanCall(t)
    /\ opens[index].opened > 0
    /\ opens' = [opens EXCEPT ![index].closed = TRUE]
    /\ IF driver_data[index] = 0
       THEN Returns(t)
       ELSE Goes(t, Entered(t, "close", index, "close_155"))
    /\ UNCHANGED <<heap, table_ptr, driver_data, flip, slab, seqvars>>

\* line 155
close_down(t) == down(t, "close_155", "close_159")

\* lines 159-168
close_body(t) ==
    /\ task[t].pc = "close_159"
    /\ heap' = [heap EXCEPT ![task[t].p] =
                  [@ EXCEPT !.open_count = IF @ = 0 THEN 0 ELSE @ - 1,
                            !.sem = 1]]
    /\ Returns(t)
    /\ UNCHANGED <<table_ptr, driver_data, opens, flip, slab, calls, seqvars>>

\* lines 184-189
write_enter(t, index, buffer) ==
    /\ CanCall(t)
    /\ opens[index].opened > 0
    /\ IF driver_data[index] = 0
       THEN Returns(t)
       ELSE Goes(t, [Entered(t, "write", index, "write_191")
                       EXCEPT !.buffer = buffer])
    /\ UNCHANGED <<heap, table_ptr, driver_data, opens, flip, slab, seqvars>>

\* line 191
write_down(t) == down(t, "write_191", "write_193")

\* the semaphore count tty0tty_write leaves with a return in place of the
\* goto exit of line 195
WriteExitSemReturn(open_count) == IF open_count = 0 THEN 0 ELSE 1

\* lines 219-220: every path of tty0tty_write leaves through up()
WriteExitSem(open_count) == 1

\* lines 193-221
write_body(t) ==
    /\ task[t].pc = "write_193"
    /\ LET b == WritePartnerIndex(task[t].index)
           open_count == heap[task[t].p].open_count
           pushes == open_count # 0 /\ ActivePtr(b)
       IN  /\ flip' = IF pushes
                      THEN [flip EXCEPT ![b] = @ \o task[t].buffer]
                      ELSE flip
           /\ Returns(t)
           /\ heap' = [heap EXCEPT ![task[t].p].sem = WriteExitSem(open_count)]
    /\ UNCHANGED <<table_ptr, driver_data, opens, slab, calls, seqvars>>

\* lines 226-230
write_room_enter(t, index) ==
    /\ CanCall(t)
    /\ opens[index].opened > 0
    /\ IF driver_data[index] = 0
       THEN Returns(t)
       ELSE Goes(t, Entered(t, "write_room", index, "write_room_232"))
    /\ UNCHANGED <<heap, table_ptr, driver_data, opens, flip, slab, seqvars>>

\* line 232
write_room_down(t) == down(t, "write_room_232", "write_room_234")

\* lines 234-244
write_room_body(t) ==
    /\ task[t].pc = "write_room_234"
    /\ Returns(t)
    /\ heap' = [heap EXCEPT ![task[t].p].sem = 1]
    /\ UNCHANGED <<table_ptr, driver_data, opens, flip, slab, calls, seqvars>>

\* lines 339-354
tiocmget_call(t, index) ==
    /\ CanCall(t)
    /\ opens[index].opened > 0
    /\ IF driver_data[index] = 0
       THEN Oops(t)
       ELSE Returns(t)
    /\ UNCHANGED <<heap, table_ptr, driver_data, opens, flip, slab, seqvars>>

\* lines 360-361
tiocmset_enter(t, index, set, clear) ==
    /\ CanCall(t)
    /\ opens[index].opened > 0
    /\ set \cap clear = {}
    /\ IF driver_data[index] = 0
       THEN Oops(t)
       ELSE Goes(t, [Entered(t, "tiocmset", index, "tiocmset_368")
                       EXCEPT !.set = set, !.clear = clear,
                              !.mcr = heap[driver_data[index]].mcr])
    /\ UNCHANGED <<heap, table_ptr, driver_data, opens, flip, slab, seqvars>>

\* lines 368-407
tiocmset_lookup(t) ==
    /\ task[t].pc = "tiocmset_368"
    /\ LET b == TiocmsetPartnerIndex(task[t].index)
           msr == IF ActivePtr(b) THEN heap[table_ptr[b]].msr ELSE {}
       IN  Goes(t, [task[t] EXCEPT
                      !.pc = "tiocmset_411",
                      !.mcr = NewMcr(@, task[t].set, task[t].clear),
                      !.msr = NewMsr(msr, task[t].set, task[t].clear)])
    /\ UNCHANGED <<heap, table_ptr, driver_data, opens, flip, slab, calls,
                   seqvars>>

\* line 411
tiocmset_mcr(t) ==
    /\ task[t].pc = "tiocmset_411"
    /\ heap' = [heap EXCEPT ![task[t].p].mcr = task[t].mcr]
    /\ Goes(t, [task[t] EXCEPT !.pc = "tiocmset_413"])
    /\ UNCHANGED <<table_ptr, driver_data, opens, flip, slab, calls, seqvars>>

\* lines 413-425
tiocmset_msr(t) ==
    /\ task[t].pc = "tiocmset_413"
    /\ LET b == TiocmsetPartnerIndex(task[t].index)
       IN  heap' = IF ActivePtr(b)
                   THEN [heap EXCEPT ![table_ptr[b]].msr = task[t].msr]
                   ELSE heap
    /\ Returns(t)
    /\ UNCHANGED <<table_ptr, driver_data, opens, flip, slab, calls, seqvars>>

\* lines 468-482: the snapshot, then the sleep on the wait queue whose head
\* was never initialised
tiocmiwait_call(t, index, arg) ==
    /\ CanCall(t)
    /\ opens[index].opened > 0
    /\ IF driver_data[index] = 0
       THEN Oops(t)
       ELSE \E st \in {"sleeping", "fault"} :
               Goes(t, [Entered(t, "tiocmiwait", index, st)
                          EXCEPT !.arg = arg,
                                 !.cprev = heap[driver_data[index]].icount])
    /\ UNCHANGED <<heap, table_ptr, driver_data, opens, flip, slab, seqvars>>

\* lines 483-487: a signal ends the sleep
tiocmiwait_interrupted(t) ==
    /\ task[t].pc = "sleeping"
    /\ Returns(t)
    /\ UNCHANGED <<heap, table_ptr, driver_data, opens, flip, slab, calls,
                   seqvars>>

\* lines 483-499: a wake-up from outside the driver ends the sleep
tiocmiwait_woken(t) ==
    /\ task[t].pc = "sleeping"
    /\ LET cnow == heap[task[t].p].icount
       IN  IF NoChange(cnow, task[t].cprev)
           THEN Returns(t)
           ELSE IF MaskedChange(task[t].arg, cnow, task[t].cprev)
           THEN Returns(t)
           ELSE Goes(t, [task[t] EXCEPT !.cprev = cnow])
    /\ UNCHANGED <<heap, table_ptr, driver_data, opens, flip, slab, calls,
                   seqvars>>

\* the calls a caller makes
Enter(t) ==
    \/ \E index \in Ports : open_enter(t, index)
    \/ \E index \in Ports : close_enter(t, index)
    \/ \E index \in Ports : write_enter(t, index, <<"a">>)
    \/ \E index \in Ports : write_room_enter(t, index)
    \/ \E index \in Ports : tiocmget_call(t, index)
    \/ \E index \in Ports, set \in RtsMasks, clear \in RtsMasks :
            tiocmset_enter(t, index, set, clear)
    \/ \E index \in Ports : tiocmiwait_call(t, index, {TIOCM_CTS})

\* the steps a caller takes inside open, close, write, write_room and
\* tiocmset
Run(t) ==
    \/ open_kmalloc(t)
    \/ open_store(t)
    \/ open_lookup(t)
    \/ open_msr(t)
    \/ open_down(t)
    \/ open_body(t)
    \/ close_down(t)
    \/ close_body(t)
    \/ write_down(t)
    \/ write_body(t)
    \/ write_room_down(t)
    \/ write_room_body(t)
    \/ tiocmset_lookup(t)
    \/ tiocmset_mcr(t)
    \/ tiocmset_msr(t)

\* what ends the sleep of a caller in TIOCMIWAIT
Wakeup(t) ==
    \/ tiocmiwait_interrupted(t)
    \/ tiocmiwait_woken(t)

RaceNext == \E t \in Tasks : Enter(t) \/ Run(t) \/ Wakeup(t)

SpecRace == Init /\ [][RaceNext]_vars

\* the scheduler runs every caller that can take a step, and up() passes
\* the semaphore to a caller that waits in down(); nothing makes a signal
\* or a wake-up reach a caller asleep in TIOCMIWAIT
SpecRaceFair == SpecRace /\ \A t \in Tasks : WF_vars(Run(t))

----------------------------------------------------------------------------
(* A tiocmset in progress.  The pair has been opened by open(0); open(1),  *)
(* with or without a close(1) after them, and a caller has entered         *)
(* tiocmset(0, TIOCM_RTS, 0) and read mcr at line 361.  One more call is   *)
(* made while it runs or after it: tiocmset(0, TIOCM_DTR, 0) or open(1).   *)
(* tty0tty_table keeps the registers as they were before the two calls.    *)

\* the table after open(0); open(1) on memory filled with w
PairOpened(w) ==
    Opened(Allocated(Opened(Allocated(<< >>, 0, w), 0), 1, w), 1)

\* the structure of index on the heap, its semaphore free
StructOf(table, index) ==
    [open_count |-> table[index].open_count, sem |-> 1,
     msr |-> table[index].msr, mcr |-> table[index].mcr,
     icount |-> table[index].icount, tty |-> index]

\* the structures the table points to, as the fields of tty0tty_table
TableOfHeap ==
    [i \in {j \in Ports : table_ptr[j] # 0} |->
        [open_count |-> heap[table_ptr[i]].open_count,
         msr |-> heap[table_ptr[i]].msr,
         mcr |-> heap[table_ptr[i]].mcr,
         icount |-> heap[table_ptr[i]].icount]]

InitSetRace ==
    /\ slab \in GarbageWords
    /\ \E closed \in BOOLEAN :
          /\ tty0tty_table = IF closed THEN Closed(PairOpened(slab), 1)
                                       ELSE PairOpened(slab)
          /\ opens = [i \in Ports |->
                        [opened |-> 1, closed |-> (i = 1 /\ closed)]]
    /\ heap = <<StructOf(tty0tty_table, 0), StructOf(tty0tty_table, 1)>>
    /\ table_ptr = [i \in Ports |-> i + 1]
    /\ driver_data = [i \in Ports |-> i + 1]
    /\ task = [t \in Tasks |->
                 IF t = 1
                 THEN [IdleTask EXCEPT !.pc = "tiocmset_368",
                                       !.op = "tiocmset",
                                       !.index = 0,
                                       !.p = 1,
                                       !.set = {TIOCM_RTS},
                                       !.mcr = tty0tty_table[0].mcr]
                 ELSE IdleTask]
    /\ calls = MaxCalls - 1
    /\ flip = [i \in Ports |-> << >>]
    /\ waiter = Idle
    /\ last = Call("init", 0, << >>, Ret(0))
    /\ accepted = [i \in Ports |-> << >>]

SetRaceNext ==
    \E t \in Tasks :
        \/ tiocmset_enter(t, 0, {TIOCM_DTR}, {})
        \/ open_enter(t, 1)
        \/ tiocmset_lookup(t)
        \/ tiocmset_mcr(t)
        \/ tiocmset_msr(t)
        \/ open_lookup(t)
        \/ open_msr(t)
        \/ open_down(t)
        \/ open_body(t)

SpecSetRace == InitSetRace /\ [][SetRaceNext]_vars

----------------------------------------------------------------------------
(* Claims *)

\* the step just taken is a call of op on index that returned no error
Returned(op, index) ==
    /\ last'.op = op
    /\ last'.index = index
    /\ last'.ret.err = "none"

\* 1 when bit is in exactly one of the two registers, else 0
Flipped(bit, before, after) ==
    IF (bit \in before) # (bit \in after) THEN 1 ELSE 0

\* C1: whenever both endpoints of the pair are active, each endpoint's CTS
\* equals its partner's RTS and its DSR and CD equal its partner's DTR.
C1_StatusMirrorsControl ==
    \A a \in Ports :
        (Active(tty0tty_table, a) /\ PartnerActive(tty0tty_table, a)) =>
            LET A == tty0tty_table[a]
                B == tty0tty_table[PartnerIndex(a)]
            IN  /\ (MSR_CTS \in A.msr) <=> (MCR_RTS \in B.mcr)
                /\ (MSR_DSR \in A.msr) <=> (MCR_DTR \in B.mcr)
                /\ (MSR_CD \in A.msr) <=> (MCR_DTR \in B.mcr)

\* C2: an open of A made while partner B is active leaves A's CTS equal to
\* B's RTS and A's DSR and CD equal to B's DTR, and A's transition counters
\* as they were before the call (for a structure the call allocates: as the
\* allocation delivered them).
C2_OpenSeedsStatus ==
    [][\A a \in Ports :
        (Returned("open", a) /\ PartnerActive(tty0tty_table, a)) =>
            LET A == tty0tty_table'[a]
                B == tty0tty_table[PartnerIndex(a)]
            IN  /\ (MSR_CTS \in A.msr) <=> (MCR_RTS \in B.mcr)
                /\ (MSR_DSR \in A.msr) <=> (MCR_DTR \in B.mcr)
                /\ (MSR_CD \in A.msr) <=> (MCR_DTR \in B.mcr)
                /\ A.icount = IF IsNull(tty0tty_table, a)
                              THEN GarbageIcount(slab)
                              ELSE tty0tty_table[a].icount]_vars

\* C2 witness: an open has returned on an endpoint whose partner is active
\* and holds RTS and DTR, and the endpoint shows CTS, DSR and CD.
C2_Witness ==
    /\ last.op = "open" /\ last.ret.err = "none"
    /\ PartnerActive(tty0tty_table, last.index)
    /\ {MCR_RTS, MCR_DTR} \subseteq tty0tty_table[PartnerIndex(last.index)].mcr
    /\ tty0tty_table[last.index].msr = {MSR_CTS, MSR_DSR, MSR_CD}
    /\ tty0tty_table[last.index].open_count = 1

\* what the masks make of one control bit and of the status bits it drives
LineAfter(line, set, clear, was) ==
    IF line \in set THEN TRUE ELSE IF line \in clear THEN FALSE ELSE was

\* C3: tiocmset on A with partner B active updates A's RTS and DTR by the
\* masks; B's CTS follows RTS and B's DSR and CD follow DTR when the bit is
\* in a mask, and keep their value when it is in neither; RI is kept.
C3_SetPropagatesToActivePartner ==
    [][\A a \in Ports :
        (/\ last'.op = "tiocmset" /\ last'.index = a
         /\ PartnerActive(tty0tty_table, a))
        =>  LET set == last'.args[1]
                clear == last'.args[2]
                A == tty0tty_table[a]
                B == tty0tty_table[PartnerIndex(a)]
                A2 == tty0tty_table'[a]
                B2 == tty0tty_table'[PartnerIndex(a)]
            IN  /\ (MCR_RTS \in A2.mcr)
                      = LineAfter(TIOCM_RTS, set, clear, MCR_RTS \in A.mcr)
                /\ (MCR_DTR \in A2.mcr)
                      = LineAfter(TIOCM_DTR, set, clear, MCR_DTR \in A.mcr)
                /\ (MSR_CTS \in B2.msr)
                      = LineAfter(TIOCM_RTS, set, clear, MSR_CTS \in B.msr)
                /\ (MSR_DSR \in B2.msr)
                      = LineAfter(TIOCM_DTR, set, clear, MSR_DSR \in B.msr)
                /\ (MSR_CD \in B2.msr)
                      = LineAfter(TIOCM_DTR, set, clear, MSR_CD \in B.msr)
                /\ (MSR_RI \in B2.msr) = (MSR_RI \in B.msr)]_vars

\* C3 witness: tiocmset has returned on an endpoint that holds RTS and not
\* DTR, and its active partner shows CTS without DSR and CD.
C3_Witness ==
    /\ last.op = "tiocmset"
    /\ PartnerActive(tty0tty_table, last.index)
    /\ MCR_RTS \in tty0tty_table[last.index].mcr
    /\ MCR_DTR \notin tty0tty_table[last.index].mcr
    /\ tty0tty_table[PartnerIndex(last.index)].msr = {MSR_CTS}

\* C4: tiocmset on A with partner B inactive (no structure, or open_count
\* 0) updates A's RTS and DTR by the masks and leaves B's structure, if
\* there is one, as it was: status register and counters.
C4_SetWithInactivePartnerIsLocal ==
    [][\A a \in Ports :
        (/\ last'.op = "tiocmset" /\ last'.index = a
         /\ ~PartnerActive(tty0tty_table, a))
        =>  LET set == last'.args[1]
                clear == last'.args[2]
                A == tty0tty_table[a]
                A2 == tty0tty_table'[a]
                b == PartnerIndex(a)
            IN  /\ (MCR_RTS \in A2.mcr)
                      = LineAfter(TIOCM_RTS, set, clear, MCR_RTS \in A.mcr)
                /\ (MCR_DTR \in A2.mcr)
                      = LineAfter(TIOCM_DTR, set, clear, MCR_DTR \in A.mcr)
                /\ IsNull(tty0tty_table', b) = IsNull(tty0tty_table, b)
                /\ ~IsNull(tty0tty_table, b) =>
                     /\ tty0tty_table'[b].msr = tty0tty_table[b].msr
                     /\ tty0tty_table'[b].icount = tty0tty_table[b].icount]_vars

\* C4 witness: tiocmset has returned on an endpoint that now holds RTS and
\* DTR while its partner's structure exists with open_count 0 and shows
\* none of CTS, DSR, CD.
C4_Witness ==
    /\ last.op = "tiocmset"
    /\ {MCR_RTS, MCR_DTR} \subseteq tty0tty_table[last.index].mcr
    /\ ~IsNull(tty0tty_table, PartnerIndex(last.index))
    /\ tty0tty_table[PartnerIndex(last.index)].open_count = 0
    /\ tty0tty_table[PartnerIndex(last.index)].msr = {}

\* C5: a tiocmset on A with partner B active raises B's CTS, DSR and DCD
\* transition counters by one for each of these status bits that flips, and
\* by nothing for a bit that does not flip.
C5_FlipsAreCounted ==
    [][\A a \in Ports :
        (/\ last'.op = "tiocmset" /\ last'.index = a
         /\ PartnerActive(tty0tty_table, a))
        =>  LET B == tty0tty_table[PartnerIndex(a)]
                B2 == tty0tty_table'[PartnerIndex(a)]
            IN  /\ B2.icount.cts
                      = B.icount.cts + Flipped(MSR_CTS, B.msr, B2.msr)
                /\ B2.icount.dsr
                      = B.icount.dsr + Flipped(MSR_DSR, B.msr, B2.msr)
                /\ B2.icount.dcd
                      = B.icount.dcd + Flipped(MSR_CD, B.msr, B2.msr)]_vars

\* C6: a tiocmset that flips CTS of an active endpoint on which a task
\* sleeps in TIOCMIWAIT with CTS in its mask wakes that task.
C6_EdgeWakesWaiter ==
    [][(/\ waiter.state = "sleeping"
        /\ TIOCM_CTS \in waiter.arg
        /\ Active(tty0tty_table, waiter.index)
        /\ last'.op = "tiocmset"
        /\ last'.index = PartnerIndex(waiter.index)
        /\ Flipped(MSR_CTS, tty0tty_table[waiter.index].msr,
                   tty0tty_table'[waiter.index].msr) = 1)
       => waiter'.state = "runnable"]_vars

\* C7: a write of N bytes on an active endpoint whose partner is inactive
\* returns N and puts no byte in any flip buffer.
C7_WriteToInactivePartnerAccepted ==
    [][\A a \in Ports :
        (/\ last'.op = "write" /\ last'.index = a
         /\ Active(tty0tty_table, a)
         /\ ~PartnerActive(tty0tty_table, a))
        => /\ last'.ret = Ret(last'.args)
           /\ flip' = flip]_vars

\* the bytes of the last write on index a that returned a count
Written(a) ==
    SubSeq(accepted[a], Len(accepted[a]) - last.args + 1, Len(accepted[a]))

\* C8: a write on an active endpoint A whose partner B is active appends
\* the buffer to B's flip buffer, leaves every other flip buffer alone and
\* returns the buffer's length; at any time B's flip buffer is the
\* concatenation, in call order, of the buffers A's writes returned a count
\* for.
C8_WriteAppendsInOrder ==
    /\ [](\A a \in Ports : flip[PartnerIndex(a)] = accepted[a])
    /\ [][\A a \in Ports :
            (/\ last'.op = "write" /\ last'.index = a
             /\ Active(tty0tty_table, a)
             /\ PartnerActive(tty0tty_table, a))
            => /\ Len(Written(a)') = last'.args
               /\ flip'[PartnerIndex(a)] = flip[PartnerIndex(a)] \o Written(a)'
               /\ \A i \in Ports \ {PartnerIndex(a)} : flip'[i] = flip[i]
               /\ last'.ret = Ret(last'.args)]_vars

\* C8 witness: two writes on one endpoint have delivered the bytes "a" then
\* "b" to its partner, and nothing went anywhere else.
C8_Witness ==
    /\ last.op = "write" /\ last.ret = Ret(1)
    /\ accepted[last.index] = <<"a", "b">>
    /\ flip[PartnerIndex(last.index)] = <<"a", "b">>
    /\ flip[last.index] = << >>

\* C9: a write that returns N raises the writer's tx counter by N and, with
\* the partner active, the partner's rx counter by N.
C9_BytesAreCounted ==
    [][\A a \in Ports :
        Returned("write", a)
        => /\ tty0tty_table'[a].icount.tx
                = tty0tty_table[a].icount.tx + last'.ret.val
           /\ PartnerActive(tty0tty_table, a)
                => tty0tty_table'[PartnerIndex(a)].icount.rx
                     = tty0tty_table[PartnerIndex(a)].icount.rx
                       + last'.ret.val]_vars

\* C10: write and write_room on an endpoint whose open_count is 0 return
\* -EINVAL and change nothing (on a tty with no structure: -ENODEV, and
\* nothing changes); write_room on an active endpoint returns 255 and
\* changes nothing.
C10_NotOpenFails ==
    [][\A a \in Ports :
        (last'.op \in {"write", "write_room"} /\ last'.index = a)
        => /\ (~IsNull(tty0tty_table, a)
                  /\ tty0tty_table[a].open_count = 0)
                => /\ last'.ret = Errno("EINVAL")
                   /\ UNCHANGED <<tty0tty_table, flip, waiter, accepted>>
           /\ IsNull(tty0tty_table, a)
                => /\ last'.ret = Errno("ENODEV")
                   /\ UNCHANGED <<tty0tty_table, flip, waiter, accepted>>
           /\ (last'.op = "write_room" /\ Active(tty0tty_table, a))
                => /\ last'.ret = Ret(255)
                   /\ UNCHANGED <<tty0tty_table, flip, waiter, accepted>>
       ]_vars

\* C10 witness: a write on an endpoint with open_count 0 whose partner is
\* active has returned -EINVAL and the partner has received nothing.
C10_Witness ==
    /\ last.op = "write" /\ last.ret = Errno("EINVAL")
    /\ ~IsNull(tty0tty_table, last.index)
    /\ tty0tty_table[last.index].open_count = 0
    /\ PartnerActive(tty0tty_table, last.index)
    /\ flip[PartnerIndex(last.index)] = << >>

\* C11: open_count is never negative; an open that returns 0 raises the
\* endpoint's open_count by exactly 1 (from 0 for a structure it creates);
\* a close lowers it by exactly 1 when it is positive and, when it is 0,
\* changes nothing and reports no error.
C11_OpenCountNonNegative ==
    /\ [](\A i \in DOMAIN tty0tty_table : tty0tty_table[i].open_count >= 0)
    /\ [][\A a \in Ports :
            /\ Returned("open", a)
                 => tty0tty_table'[a].open_count
                      = (IF IsNull(tty0tty_table, a)
                         THEN 0 ELSE tty0tty_table[a].open_count) + 1
            /\ (last'.op = "close" /\ last'.index = a)
                 => /\ last'.ret.err = "none"
                    /\ tty0tty_table[a].open_count > 0
                         => tty0tty_table'[a].open_count
                              = tty0tty_table[a].open_count - 1
                    /\ tty0tty_table[a].open_count = 0
                         => tty0tty_table' = tty0tty_table]_vars

\* C11 witness: a close has returned on an endpoint and left its open_count
\* at 0, while two opens have brought the partner's open_count to 2.
C11_Witness ==
    /\ last.op = "close" /\ last.ret.err = "none"
    /\ tty0tty_table[last.index].open_count = 0
    /\ ~IsNull(tty0tty_table, PartnerIndex(last.index))
    /\ tty0tty_table[PartnerIndex(last.index)].open_count = 2

\* C12: a close changes nothing but the closing endpoint's open_count: the
\* structure stays in the table, also at open_count 0, its mcr, msr and
\* counters are kept, the partner's structure and the flip buffers are as
\* they were.
C12_CloseChangesOnlyOpenCount ==
    [][\A a \in Ports :
        (last'.op = "close" /\ last'.index = a)
        => /\ DOMAIN tty0tty_table' = DOMAIN tty0tty_table
           /\ tty0tty_table'[a]
                = [tty0tty_table[a] EXCEPT
                     !.open_count = tty0tty_table'[a].open_count]
           /\ \A i \in DOMAIN tty0tty_table \ {a} :
                 tty0tty_table'[i] = tty0tty_table[i]
           /\ flip' = flip]_vars

\* C12 witness: a close has left an endpoint that holds RTS at open_count 0
\* and its still-open partner goes on showing CTS.
C12_Witness ==
    /\ last.op = "close"
    /\ tty0tty_table[last.index].open_count = 0
    /\ MCR_RTS \in tty0tty_table[last.index].mcr
    /\ PartnerActive(tty0tty_table, last.index)
    /\ MSR_CTS \in tty0tty_table[PartnerIndex(last.index)].msr

\* the four counters TIOCMIWAIT monitors, by the name of their field
Monitored == {"cts", "dsr", "dcd", "rng"}

\* C13: a task in TIOCMIWAIT that is woken with no signal pending while
\* none of the cts, dsr, dcd and rng counters differs from its snapshot
\* returns -EIO: it neither sleeps again nor returns 0.
C13_SpuriousWakeIsEIO ==
    [][(/\ waiter.state = "runnable"
        /\ ~waiter.sig
        /\ \A c \in Monitored :
              tty0tty_table[waiter.index].icount[c] = waiter.cprev[c]
        /\ waiter' # waiter)
       => /\ waiter'.state = "idle"
          /\ last' = Call("tiocmiwait", waiter.index, waiter.arg,
                          Errno("EIO"))]_vars

\* C13 witness: TIOCMIWAIT has returned -EIO on an active endpoint whose
\* partner is active too.
C13_Witness ==
    /\ last.op = "tiocmiwait" /\ last.ret = Errno("EIO")
    /\ waiter.state = "idle"
    /\ Active(tty0tty_table, last.index)
    /\ PartnerActive(tty0tty_table, last.index)

\* the field of struct async_icount behind each TIOCM bit of the mask
CounterOf(bit) ==
    IF bit = TIOCM_CTS THEN "cts"
    ELSE IF bit = TIOCM_DSR THEN "dsr"
    ELSE IF bit = TIOCM_CD THEN "dcd"
    ELSE "rng"

\* a counter of a line in the mask differs from the snapshot
MaskedDiffers(w, cnow) ==
    \E bit \in w.arg : cnow[CounterOf(bit)] # w.cprev[CounterOf(bit)]

\* C14: TIOCMIWAIT returns 0 only when the counter of a line in its mask
\* differs from the task's latest snapshot; a task woken with no signal
\* pending while only counters of lines outside the mask differ does not
\* return: it takes the current counters as its snapshot and sleeps again.
C14_SuccessOnlyOnMaskedChange ==
    [][(waiter.state = "runnable" /\ waiter' # waiter)
       => LET cnow == tty0tty_table[waiter.index].icount
          IN  /\ (waiter'.state = "idle" /\ last'.ret.err = "none")
                   => MaskedDiffers(waiter, cnow)
              /\ (/\ ~waiter.sig
                  /\ ~MaskedDiffers(waiter, cnow)
                  /\ \E c \in Monitored : cnow[c] # waiter.cprev[c])
                   => /\ waiter' = [waiter EXCEPT !.state = "sleeping",
                                                  !.cprev = cnow]
                      /\ last' = last]_vars

\* C14 witness: TIOCMIWAIT with a mask of CTS alone has returned 0 on an
\* endpoint.
C14_Witness ==
    /\ last.op = "tiocmiwait" /\ last.ret = Ret(0)
    /\ last.args = {TIOCM_CTS}
    /\ waiter.state = "idle"

\* C19: tiocmset on an endpoint whose open_count is 0 returns an error and
\* leaves the whole table as it was: neither the endpoint's mcr nor the
\* partner's msr changes.
C19_SetNotOpenFails ==
    [][\A a \in Ports :
        (/\ last'.op = "tiocmset" /\ last'.index = a
         /\ tty0tty_table[a].open_count = 0)
        => /\ last'.ret.err # "none"
           /\ tty0tty_table' = tty0tty_table]_vars

\* C20: tiocmset with TIOCM_LOOP in set leaves MCR_LOOP set in the caller's
\* mcr and with TIOCM_LOOP in clear leaves it cleared, so that tiocmget
\* reports the bit accordingly; a tiocmset whose masks hold no other bit
\* than TIOCM_LOOP changes nothing in the partner's structure.
C20_LoopIsLocal ==
    [][\A a \in Ports :
        (last'.op = "tiocmset" /\ last'.index = a)
        =>  LET set == last'.args[1]
                clear == last'.args[2]
                b == PartnerIndex(a)
            IN  /\ TIOCM_LOOP \in set
                     => /\ MCR_LOOP \in tty0tty_table'[a].mcr
                        /\ TIOCM_LOOP \in ModemBits(tty0tty_table'[a])
                /\ TIOCM_LOOP \in clear
                     => /\ MCR_LOOP \notin tty0tty_table'[a].mcr
                        /\ TIOCM_LOOP \notin ModemBits(tty0tty_table'[a])
                /\ (set \cup clear) \subseteq {TIOCM_LOOP}
                     => /\ IsNull(tty0tty_table', b) = IsNull(tty0tty_table, b)
                        /\ ~IsNull(tty0tty_table, b)
                             => tty0tty_table'[b] = tty0tty_table[b]]_vars

\* index with its lowest bit inverted
Xor1(index) == (index \div 2) * 2 + (1 - (index % 2))

\* C18: on the minors 0..TINY_TTY_MINORS-1 the lookups of open, write and
\* tiocmset give the same index, which is the index XOR 1, a minor, not the
\* index itself, and whose own lookup gives the index back; accordingly an
\* open of index reads the control lines of index XOR 1, a write on index
\* delivers to index XOR 1 and a tiocmset on index drives the status lines
\* of index XOR 1.
C18_PartnerIsInvolution ==
    /\ [](\A i \in Minors :
            /\ OpenPartnerIndex(i) = Xor1(i)
            /\ WritePartnerIndex(i) = Xor1(i)
            /\ TiocmsetPartnerIndex(i) = Xor1(i)
            /\ Xor1(i) \in Minors
            /\ Xor1(i) # i
            /\ OpenPartnerIndex(OpenPartnerIndex(i)) = i
            /\ WritePartnerIndex(WritePartnerIndex(i)) = i
            /\ TiocmsetPartnerIndex(TiocmsetPartnerIndex(i)) = i)
    /\ [][\A a \in Ports :
            /\ Returned("open", a)
                 => (MSR_CTS \in tty0tty_table'[a].msr)
                      = (/\ Active(tty0tty_table, Xor1(a))
                         /\ MCR_RTS \in tty0tty_table[Xor1(a)].mcr)
            /\ Returned("write", a)
                 => /\ Len(flip'[Xor1(a)]) = Len(flip[Xor1(a)]) + last'.args
                    /\ flip'[a] = flip[a]
            /\ (/\ last'.op = "tiocmset" /\ last'.index = a
                /\ TIOCM_RTS \in last'.args[1]
                /\ Active(tty0tty_table, Xor1(a)))
                 => MSR_CTS \in tty0tty_table'[Xor1(a)].msr]_vars

\* C18 witness: a write on an endpoint has delivered a byte to the endpoint
\* of the index XOR 1, which holds RTS that a tiocmset stored or the
\* allocation left, and the writer shows CTS.
C18_Witness ==
    /\ last.op = "write" /\ last.ret = Ret(1)
    /\ flip[Xor1(last.index)] = <<"a">>
    /\ flip[last.index] = << >>
    /\ MSR_CTS \in tty0tty_table[last.index].msr
    /\ MCR_RTS \in tty0tty_table[Xor1(last.index)].mcr

\* the positions at which a caller waits in down()
DownPcs == {"open_141", "close_155", "write_191", "write_room_232"}

\* the positions inside open, close, write, write_room and tiocmset
InHandler == {"open_102", "open_109", "open_113", "open_139", "open_141",
              "open_144", "close_155", "close_159", "write_191",
              "write_193", "write_room_232", "write_room_234",
              "tiocmset_368", "tiocmset_411", "tiocmset_413"}

\* C15: whenever open_count, mcr, msr or icount of a structure changes, the
\* caller that takes the step holds that structure's semaphore.
C15_MutationsUnderLock ==
    [][\A p \in DOMAIN heap :
        (\/ heap'[p].open_count # heap[p].open_count
         \/ heap'[p].mcr # heap[p].mcr
         \/ heap'[p].msr # heap[p].msr
         \/ heap'[p].icount # heap[p].icount)
        => \E t \in Tasks : task'[t] # task[t] /\ task[t].holds = p]_vars

\* C16: once the opens of an index have returned and no close has been
\* called on it, exactly one structure has been created for the index, the
\* table holds it, the tty is attached to it and its open_count is the
\* number of opens that returned 0 -- also when the first opens of the
\* index ran at the same time.
C16_FirstOpenRaceSafe ==
    \A i \in Ports :
        (/\ \A t \in Tasks : ~(task[t].op = "open" /\ task[t].index = i)
         /\ opens[i].opened > 0
         /\ ~opens[i].closed)
        => /\ Cardinality({p \in DOMAIN heap : heap[p].tty = i}) = 1
           /\ table_ptr[i] # 0
           /\ driver_data[i] = table_ptr[i]
           /\ heap[table_ptr[i]].open_count = opens[i].opened

\* C17: a caller that waits for a semaphore holds none, or holds that of a
\* lower index; a caller asleep in TIOCMIWAIT holds none; a semaphore is
\* down only while a caller holds it; and a caller inside open, close,
\* write, write_room or tiocmset leaves its handler in the end, whatever
\* callers stay asleep in TIOCMIWAIT (tiocmget is a single step).
C17_DeadlockFree ==
    /\ [](\A t \in Tasks :
            /\ task[t].pc \in DownPcs
                 => \/ task[t].holds = 0
                    \/ heap[task[t].holds].tty < task[t].index
            /\ task[t].pc = "sleeping" => task[t].holds = 0)
    /\ [](\A p \in DOMAIN heap :
            heap[p].sem = 0 => \E t \in Tasks : task[t].holds = p)
    /\ \A t \in Tasks : (task[t].pc \in InHandler) ~> (task[t].pc = "idle")

\* C17 witness: a caller is inside write_room with the semaphore of an
\* open structure while another caller is asleep in TIOCMIWAIT on the same
\* structure.
C17_Witness ==
    \E t \in Tasks, u \in Tasks :
        /\ task[t].pc = "write_room_234" /\ task[t].holds = task[t].p
        /\ heap[task[t].p].open_count > 0
        /\ task[u].pc = "sleeping" /\ task[u].p = task[t].p

\* C21: an open of an endpoint that is already open (open_count >= 1) adds
\* one to its open_count and changes nothing else: its msr is as it was,
\* with the partner open or not.
C21_ReopenKeepsStatus ==
    [][\A a \in Ports :
        (/\ last'.op = "open" /\ last'.index = a /\ last'.ret = Ret(0)
         /\ Active(tty0tty_table, a))
        => tty0tty_table'
             = [tty0tty_table EXCEPT ![a].open_count = @ + 1]]_vars

\* C22: a tiocmset on an endpoint changes at most that endpoint's mcr and
\* its partner's msr: the endpoint's own msr, the partner's mcr, the
\* open_count and the counters of both, every other structure and the flip
\* buffers are as they were.
C22_SetChangesOnlyMcrAndPartnerMsr ==
    [][\A a \in Ports :
        (last'.op = "tiocmset" /\ last'.index = a)
        => /\ DOMAIN tty0tty_table' = DOMAIN tty0tty_table
           /\ tty0tty_table'[a]
                = [tty0tty_table[a] EXCEPT !.mcr = tty0tty_table'[a].mcr]
           /\ \A i \in DOMAIN tty0tty_table \ {a} :
                 tty0tty_table'[i]
                   = IF i = PartnerIndex(a)
                     THEN [tty0tty_table[i] EXCEPT
                             !.msr = tty0tty_table'[i].msr]
                     ELSE tty0tty_table[i]
           /\ flip' = flip]_vars

\* C22 witness: a tiocmset has raised RTS on an endpoint whose partner is
\* open: the partner shows CTS and has no RTS of its own, and the caller's
\* own msr shows no CTS.
C22_Witness ==
    /\ last.op = "tiocmset" /\ last.args = <<{TIOCM_RTS}, {}>>
    /\ MCR_RTS \in tty0tty_table[last.index].mcr
    /\ MSR_CTS \notin tty0tty_table[last.index].msr
    /\ PartnerActive(tty0tty_table, last.index)
    /\ MSR_CTS \in tty0tty_table[PartnerIndex(last.index)].msr
    /\ MCR_RTS \notin tty0tty_table[PartnerIndex(last.index)].mcr

\* C23: once tiocmset(0, TIOCM_RTS, 0) and the call made beside it,
\* tiocmset(0, TIOCM_DTR, 0) or the partner's open(1), have both returned,
\* the registers are those the two calls leave when one runs after the
\* other, in one of the two orders: mcr of endpoint 0 holds what both calls
\* set and msr of endpoint 1 shows it.
C23_SetIsAtomic ==
    (calls = MaxCalls /\ \A t \in Tasks : task[t].pc = "idle")
    => LET A(table) == ModemSet(table, 0, {TIOCM_RTS}, {})
           B(table) == IF opens[1].opened = 2
                       THEN Opened(table, 1)
                       ELSE ModemSet(table, 0, {TIOCM_DTR}, {})
       IN  TableOfHeap \in {B(A(tty0tty_table)), A(B(tty0tty_table))}

====
